---- MODULE Spec2Model ----
(***************************************************************************)
(* Spectrum Analyzer 1.0 (src/special_matters.py): the session state of    *)
(* SpectrumAnalyzerApp and its event handlers, as a state machine.         *)
(*                                                                         *)
(* Tk runs one event loop.  get_user_points suspends its caller in         *)
(* root.wait_variable, a nested event loop that keeps dispatching button   *)
(* commands, combobox selections and canvas clicks; the suspended calls    *)
(* therefore form a stack, and only the innermost wait can return.         *)
(*                                                                         *)
(* float64 values are modelled as exact rationals <<n, d>> in lowest terms *)
(* with d > 0, extended with the IEEE non-finite values: <<1, 0>> is +inf, *)
(* <<-1, 0>> is -inf and <<0, 0>> is NaN (numpy scalars divide by zero     *)
(* without raising).  Rounding error is not modelled.                      *)
(***************************************************************************)
EXTENDS Integers, Sequences, FiniteSets, TLC

\* Bound of the model: how many get_user_points calls a run may start.
MaxCalls == 2

-----------------------------------------------------------------------------
(* float64 arithmetic *)

Abs(i) == IF i < 0 THEN -i ELSE i

Sign(i) == IF i > 0 THEN 1 ELSE IF i < 0 THEN -1 ELSE 0

RECURSIVE GCD(_, _)
GCD(a, b) == IF b = 0 THEN a ELSE GCD(b, a % b)

Norm(n, d) ==
    LET g == GCD(Abs(n), Abs(d))
        s == Sign(d)
    IN  <<(s * n) \div g, (s * d) \div g>>

V(i) == <<i, 1>>

NaN == <<0, 0>>

IsNaN(v) == v = NaN

IsInf(v) == v[2] = 0 /\ v[1] # 0

IsFinite(v) == v[2] # 0

VNeg(v) == <<-v[1], v[2]>>

VAdd(a, b) ==
    IF IsNaN(a) \/ IsNaN(b) THEN NaN
    ELSE IF IsInf(a) THEN (IF IsInf(b) /\ b # a THEN NaN ELSE a)
    ELSE IF IsInf(b) THEN b
    ELSE Norm(a[1] * b[2] + b[1] * a[2], a[2] * b[2])

VSub(a, b) == VAdd(a, VNeg(b))

VMul(a, b) ==
    IF IsNaN(a) \/ IsNaN(b) THEN NaN
    ELSE IF IsInf(a) \/ IsInf(b)
         THEN (IF a[1] = 0 \/ b[1] = 0 THEN NaN ELSE <<Sign(a[1]) * Sign(b[1]), 0>>)
    ELSE Norm(a[1] * b[1], a[2] * b[2])

\* numpy float64 division: x / 0 is +-inf, 0 / 0 is nan, no exception.
VDiv(a, b) ==
    IF IsNaN(a) \/ IsNaN(b) THEN NaN
    ELSE IF IsInf(a)
         THEN (IF IsInf(b) THEN NaN ELSE <<a[1] * (IF b[1] < 0 THEN -1 ELSE 1), 0>>)
    ELSE IF IsInf(b) THEN V(0)
    ELSE IF b[1] = 0 THEN (IF a[1] = 0 THEN NaN ELSE <<Sign(a[1]), 0>>)
    ELSE Norm(a[1] * b[2], a[2] * b[1])

VLess(a, b) ==
    IF IsNaN(a) \/ IsNaN(b) THEN FALSE
    ELSE IF IsInf(a) /\ IsInf(b) THEN a[1] < b[1]
    ELSE a[1] * b[2] < b[1] * a[2]

VAbs(v) == <<Abs(v[1]), v[2]>>

\* format(v, ".<k>f") with scale = 10^k: the decimal nearest to v, as a count
\* of 1/scale units (ties to even); "nan" and "inf" print as such.
Fmt(v, scale) ==
    IF IsNaN(v) THEN <<"nan", 0>>
    ELSE IF IsInf(v) THEN <<"inf", v[1]>>
    ELSE LET n == v[1] * scale
             q == n \div v[2]
             r == n % v[2]
         IN  <<"f", IF 2 * r > v[2] \/ (2 * r = v[2] /\ q % 2 = 1) THEN q + 1 ELSE q>>

-----------------------------------------------------------------------------
(* The file system the dialogs look at *)

Num(i) == [num |-> TRUE, val |-> i]

Bad == [num |-> FALSE, val |-> 0]

\* A measurement file: whether it can still be opened, and its rows of tokens.
Files ==
    [name \in {"peak.txt", "flat.txt", "text.txt", "onecol.txt", "onerow.txt", "gone.txt"} |->
        CASE name = "peak.txt" ->
                [readable |-> TRUE,
                 rows |-> << <<Num(0), Num(0)>>, <<Num(1), Num(1)>>, <<Num(2), Num(4)>>,
                             <<Num(3), Num(1)>>, <<Num(4), Num(0)>> >>]
          [] name = "flat.txt" ->
                [readable |-> TRUE,
                 rows |-> << <<Num(0), Num(2)>>, <<Num(2), Num(2)>>, <<Num(4), Num(2)>> >>]
          [] name = "text.txt" ->
                [readable |-> TRUE,
                 rows |-> << <<Num(0), Num(1)>>, <<Num(1), Bad>> >>]
          [] name = "onecol.txt" ->
                [readable |-> TRUE,
                 rows |-> << <<Num(0)>>, <<Num(1)>>, <<Num(2)>> >>]
          [] name = "onerow.txt" ->
                [readable |-> TRUE,
                 rows |-> << <<Num(1), Num(2)>> >>]
          [] OTHER ->
                [readable |-> FALSE, rows |-> << >>]]

\* os.listdir(folder), filtered by f.endswith('.txt'), per folder the dialog can return.
ListTxt(folder) ==
    CASE folder = "spectra" ->
            <<"peak.txt", "flat.txt", "text.txt", "onecol.txt", "onerow.txt", "gone.txt">>
      [] OTHER -> << >>

Folders == {"", "empty", "spectra"}

\* np.loadtxt(file_path): the exception it raises ("" for none) and the
\* array it returns, squeezed: one row or one column gives a 1-D array.
loadtxt(name) ==
    LET f == Files[name]
        rows == f.rows
        ok == \A i \in 1..Len(rows) :
                 /\ Len(rows[i]) = Len(rows[1])
                 /\ \A j \in 1..Len(rows[i]) : rows[i][j].num
    IN  IF ~f.readable THEN [exc |-> "IOError", ndim |-> 0, rows |-> << >>]
        ELSE IF ~ok THEN [exc |-> "ValueError", ndim |-> 0, rows |-> << >>]
        ELSE [exc |-> "",
              ndim |-> IF Len(rows) >= 2 /\ Len(rows[1]) >= 2 THEN 2
                       ELSE IF Len(rows) = 1 /\ Len(rows[1]) = 1 THEN 0 ELSE 1,
              rows |-> rows]

\* data[:, k] of a 2-D array (k counted from 0).
column(arr, k) == [i \in 1..Len(arr.rows) |-> V(arr.rows[i][k + 1].val)]

-----------------------------------------------------------------------------
(* numpy helpers used by the handlers *)

\* np.argmin(a), 0-based: a scan that keeps the first strictly smallest element.
RECURSIVE argmin_scan(_, _, _)
argmin_scan(a, i, best) ==
    IF i > Len(a) THEN best - 1
    ELSE argmin_scan(a, i + 1, IF VLess(a[i], a[best]) THEN i ELSE best)

argmin(a) == argmin_scan(a, 2, 1)

\* A slice that takes the sample at `end` too (a[start:end+1]).
slice_inclusive(a, start, end) ==
    IF start >= end THEN << >> ELSE SubSeq(a, start + 1, IF end < Len(a) THEN end + 1 ELSE end)

\* a[start:end] with 0 <= start, end <= len(a).
slice(a, start, end) == IF start >= end THEN << >> ELSE SubSeq(a, start + 1, end)

\* np.diff(a)
diff(a) == [i \in 1..(Len(a) - 1) |-> VSub(a[i + 1], a[i])]

RECURSIVE sum(_, _)
sum(a, i) == IF i > Len(a) THEN V(0) ELSE VAdd(a[i], sum(a, i + 1))

\* np.trapz(y, x): sum(diff(x) * (y[1:] + y[:-1]) / 2.0)
trapz(y, x) ==
    LET d == diff(x)
        terms == [i \in 1..Len(d) |-> VDiv(VMul(d[i], VAdd(y[i + 1], y[i])), V(2))]
    IN  sum(terms, 1)

\* sorted([a, b])
sorted2(a, b) == IF VLess(b, a) THEN <<b, a>> ELSE <<a, b>>

-----------------------------------------------------------------------------
(* The two computations on the curve *)

\* The points ordered by x-value (lines 213-216).
order_points(points) ==
    IF VLess(points[2][1], points[1][1]) THEN <<points[2], points[1]>> ELSE points

\* slope * self.binding_energies + intercept (line 222)
linear_fit(x, slope, intercept) == [i \in 1..Len(x) |-> VAdd(VMul(slope, x[i]), intercept)]

\* A removal that subtracts the line only between the two points.
remove_linear_background_between(x, y, points) ==
    LET p == order_points(points)
        x1 == p[1][1]
        y1 == p[1][2]
        x2 == p[2][1]
        y2 == p[2][2]
        slope == VDiv(VSub(y2, y1), VSub(x2, x1))
        intercept == VSub(y1, VMul(slope, x1))
        fit == linear_fit(x, slope, intercept)
    IN  [i \in 1..Len(y) |->
            IF VLess(x[i], x1) \/ VLess(x2, x[i]) THEN y[i] ELSE VSub(y[i], fit[i])]

\* The y values remove_background leaves, given the two points (lines 212-223).
remove_linear_background(x, y, points) ==
    LET p == order_points(points)
        x1 == p[1][1]
        y1 == p[1][2]
        x2 == p[2][1]
        y2 == p[2][2]
        slope == VDiv(VSub(y2, y1), VSub(x2, x1))
        intercept == VSub(y1, VMul(slope, x1))
        fit == linear_fit(x, slope, intercept)
    IN  [i \in 1..Len(y) |-> VSub(y[i], fit[i])]

\* np.abs(self.binding_energies - v)
distances(x, v) == [i \in 1..Len(x) |-> VAbs(VSub(x[i], v))]

\* What calculate_intensities computes from the two points (lines 237-249).
integrate(x, y, points) ==
    LET x_values == sorted2(points[1][1], points[2][1])
        start_idx == argmin(distances(x, x_values[1]))
        end_idx == argmin(distances(x, x_values[2]))
    IN  [x_lower |-> x_values[1], x_upper |-> x_values[2],
         start_idx |-> start_idx, end_idx |-> end_idx,
         invalid |-> start_idx >= end_idx,
         area |-> IF start_idx >= end_idx THEN V(0)
                  ELSE trapz(slice(y, start_idx, end_idx), slice(x, start_idx, end_idx))]

-----------------------------------------------------------------------------
VARIABLES
    file_paths,        \* self.file_paths: the listed files
    selector_values,   \* self.file_selector['values']
    data,              \* self.data: << >> for None, else <<x, y>>
    binding_energies,  \* self.binding_energies: << >> for None
    sum_intensities,   \* self.sum_intensities: << >> for None
    results_text,      \* self.results_text: the logged lines
    canvas,            \* whether self.ax holds a drawn spectrum
    points_collected,  \* self.points_collected: 0 for None, else the BooleanVar of call i
    tkvar,             \* the value of the BooleanVar created by call i
    calls,             \* the get_user_points calls started so far, by number (= cid)
    stack,             \* the calls suspended in wait_variable, innermost last
    message,           \* what the user was told last: a dialog, or Tk's traceback
    returned           \* the get_user_points call that returned last (history)

vars == <<file_paths, selector_values, data, binding_energies, sum_intensities,
          results_text, canvas, points_collected, tkvar, calls, stack, message, returned>>

\* The handlers connected to 'button_press_event', by cid.
Connected(cs) == {i \in DOMAIN cs : cs[i].connected}

\* The part of the state the handlers below transform.
Session ==
    [data |-> data, binding_energies |-> binding_energies,
     sum_intensities |-> sum_intensities, results_text |-> results_text,
     canvas |-> canvas, points_collected |-> points_collected, tkvar |-> tkvar,
     calls |-> calls, stack |-> stack, message |-> message, returned |-> returned]

SessionAfter ==
    [data |-> data', binding_energies |-> binding_energies',
     sum_intensities |-> sum_intensities', results_text |-> results_text',
     canvas |-> canvas', points_collected |-> points_collected', tkvar |-> tkvar',
     calls |-> calls', stack |-> stack', message |-> message', returned |-> returned']

Install(S) ==
    /\ data' = S.data
    /\ binding_energies' = S.binding_energies
    /\ sum_intensities' = S.sum_intensities
    /\ results_text' = S.results_text
    /\ canvas' = S.canvas
    /\ points_collected' = S.points_collected
    /\ tkvar' = S.tkvar
    /\ calls' = S.calls
    /\ stack' = S.stack
    /\ message' = S.message
    /\ returned' = S.returned

\* messagebox.showerror / showinfo, and an exception no handler catches (Tk
\* prints its traceback and goes on).
Msg(kind, text) == [kind |-> kind, text |-> text, value |-> V(0)]

showerror(text) == Msg("showerror", text)

showinfo(text) == Msg("showinfo", text)

uncaught(exception) == Msg("traceback", exception)

\* A call record: the closure of one get_user_points call (op is the handler
\* that made it, points its list, connected whether onclick is registered).
\* cid, seen, x0, y0, log0 and handlers0 are history: the call's number, the
\* valid clicks delivered since it began (the first num_points of them), and
\* the state the calling handler was triggered in.
NoCall ==
    [op |-> "", cid |-> 0, num_points |-> 0, points |-> << >>, connected |-> TRUE,
     returned |-> FALSE, result |-> << >>, seen |-> << >>,
     x0 |-> << >>, y0 |-> << >>, log0 |-> << >>, handlers0 |-> {}]

\* The record of a call whose list nothing refers to any more.
Dead == [NoCall EXCEPT !.connected = FALSE, !.returned = TRUE]

NoData == showerror("No data loaded. Please load data first.")

Init ==
    /\ file_paths = << >>
    /\ selector_values = << >>
    /\ data = << >>
    /\ binding_energies = << >>
    /\ sum_intensities = << >>
    /\ results_text = << >>
    /\ canvas = FALSE
    /\ points_collected = 0
    /\ tkvar = << >>
    /\ calls = << >>
    /\ stack = << >>
    /\ message = Msg("", "")
    /\ returned = [NoCall EXCEPT !.connected = FALSE]

-----------------------------------------------------------------------------
(* Handlers that run to completion *)

\* "Load Data": the folder dialog returns `folder` ("" when cancelled).
load_data ==
    \E folder \in Folders :
        IF folder = ""
        THEN UNCHANGED vars
        ELSE /\ file_paths' = ListTxt(folder)
             /\ IF ListTxt(folder) = << >>
                THEN /\ selector_values' = selector_values
                     /\ message' = showerror("No text files found in the selected folder.")
                ELSE /\ selector_values' = ListTxt(folder)
                     /\ message' = showinfo("Files loaded successfully!")
             /\ UNCHANGED <<data, binding_energies, sum_intensities, results_text, canvas,
                            points_collected, tkvar, calls, stack, returned>>

\* load_selected_file with self.selected_file.get() = selected_file and
\* self.file_paths = paths.
load_selected_file_of(S, paths, selected_file) ==
    LET arr == loadtxt(selected_file)
    IN  IF selected_file = "" \/ selected_file = "Select a file"
        THEN S
        ELSE IF ~\E i \in 1..Len(paths) : paths[i] = selected_file
        THEN [S EXCEPT !.message = uncaught("StopIteration")]
        ELSE IF arr.exc = "IOError"
        THEN [S EXCEPT !.message = showerror("Failed to load: File not found.")]
        ELSE IF arr.exc = "ValueError"
        THEN [S EXCEPT !.message = showerror("Failed to load: Invalid data format.")]
        ELSE IF arr.ndim < 2
        THEN [S EXCEPT !.message = uncaught("IndexError")]
        ELSE [S EXCEPT !.binding_energies = column(arr, 0),
                       !.sum_intensities = column(arr, 1),
                       !.data = <<column(arr, 0), column(arr, 1)>>,
                       !.message = showinfo("Loaded successfully!")]

\* <<ComboboxSelected>>: the user picks one of the listed names.
load_selected_file ==
    \E k \in 1..Len(selector_values) :
        /\ Install(load_selected_file_of(Session, file_paths, selector_values[k]))
        /\ UNCHANGED <<file_paths, selector_values>>

\* plot_data
plot_data_of(S) ==
    IF S.data = << >>
    THEN [S EXCEPT !.message = NoData]
    ELSE [S EXCEPT !.canvas = TRUE]

plot_data ==
    /\ Install(plot_data_of(Session))
    /\ UNCHANGED <<file_paths, selector_values>>

\* save_figure: the save dialog returns a path ("" when cancelled); savefig
\* raises IOError for a path that cannot be written.
SavePaths == {"", "figure.png", "/readonly/figure.png"}

save_figure ==
    \E file_path \in SavePaths :
        IF file_path = ""
        THEN UNCHANGED vars
        ELSE /\ message' = IF file_path = "figure.png"
                           THEN showinfo("Figure saved successfully!")
                           ELSE showerror("Failed to save figure: IOError.")
             /\ UNCHANGED <<file_paths, selector_values, data, binding_energies,
                            sum_intensities, results_text, canvas, points_collected,
                            tkvar, calls, stack, returned>>

-----------------------------------------------------------------------------
(* Point collection: get_user_points and the handlers suspended in it *)

\* get_user_points(num_points) up to its wait_variable, called by handler `op`:
\* a fresh list, a fresh BooleanVar stored in self.points_collected, onclick
\* connected under a new cid, and the caller suspended.  The instructions
\* dialog is modal, so no click reaches the canvas before the wait begins.
get_user_points_begin(S, op, num_points) ==
    LET cid == Len(S.calls) + 1
        c == [NoCall EXCEPT !.op = op, !.cid = cid, !.num_points = num_points,
                            !.x0 = S.binding_energies, !.y0 = S.sum_intensities,
                            !.log0 = S.results_text, !.handlers0 = Connected(S.calls)]
    IN  [S EXCEPT !.calls = Append(@, c),
                  !.tkvar = Append(@, FALSE),
                  !.points_collected = cid,
                  !.stack = Append(@, cid),
                  !.message = showinfo("Click points on the graph.")]

\* remove_background up to the suspension in get_user_points (lines 203-208).
remove_background_begin(S) ==
    IF S.data = << >>
    THEN [S EXCEPT !.message = NoData]
    ELSE get_user_points_begin(S, "remove_background", 2)

\* remove_background from the return of get_user_points on (lines 209-224):
\* the subtraction is in place, so self.data sees it, and plot_data redraws.
remove_background_end(S, points) ==
    IF Len(points) # 2
    THEN S
    ELSE LET y == remove_linear_background(S.binding_energies, S.sum_intensities, points)
         IN  plot_data_of([S EXCEPT !.sum_intensities = y,
                                    !.data = <<S.binding_energies, y>>])

\* calculate_intensities up to the suspension in get_user_points (lines 228-233).
calculate_intensities_begin(S) ==
    IF S.data = << >>
    THEN [S EXCEPT !.message = NoData]
    ELSE get_user_points_begin(S, "calculate_intensities", 2)

\* calculate_intensities from the return of get_user_points on (lines 234-256).
calculate_intensities_end(S, points) ==
    IF Len(points) < 2
    THEN S
    ELSE LET r == integrate(S.binding_energies, S.sum_intensities, points)
         IN  IF r.invalid
             THEN [S EXCEPT !.message = showerror("Invalid range selected.")]
             ELSE [S EXCEPT
                     !.message = [showinfo("Calculated Intensity") EXCEPT !.value = r.area],
                     !.results_text =
                         Append(@, [x_lower |-> Fmt(r.x_lower, 100),
                                    x_upper |-> Fmt(r.x_upper, 100),
                                    area |-> Fmt(r.area, 10000)])]

\* onclick(event) of call c (lines 280-285), except for the set of the flag.
onclick(c, event) ==
    IF event.inaxes
    THEN [c EXCEPT !.points = Append(@, <<event.xdata, event.ydata>>),
                   !.connected = (Len(c.points) + 1 # c.num_points)]
    ELSE c

\* One 'button_press_event': every connected onclick runs; one that completes
\* its list sets the BooleanVar self.points_collected names at that moment.
dispatch(S, event) ==
    LET completes(i) == /\ S.calls[i].connected
                        /\ event.inaxes
                        /\ Len(S.calls[i].points) + 1 = S.calls[i].num_points
        seen(c) == IF event.inaxes /\ Len(c.seen) < c.num_points
                   THEN Append(c.seen, <<event.xdata, event.ydata>>)
                   ELSE c.seen
    IN  [S EXCEPT
            !.calls = [i \in 1..Len(S.calls) |->
                         [(IF S.calls[i].connected THEN onclick(S.calls[i], event)
                           ELSE S.calls[i]) EXCEPT !.seen = seen(S.calls[i])]],
            !.tkvar = IF \E i \in 1..Len(S.calls) : completes(i)
                      THEN [S.tkvar EXCEPT ![S.points_collected] = TRUE]
                      ELSE S.tkvar]

\* Back in the event loops: the innermost wait_variable returns once its own
\* BooleanVar has been set, its caller runs to its end, and the wait below it
\* gets its turn.
RECURSIVE resume(_)
resume(S) ==
    IF S.stack = << >> THEN S
    ELSE LET c == S.stack[Len(S.stack)]
             points == S.calls[c].points
             R == [S EXCEPT !.stack = SubSeq(@, 1, Len(@) - 1),
                            !.calls[c].returned = TRUE,
                            !.calls[c].result = points,
                            !.returned = [S.calls[c] EXCEPT !.returned = TRUE,
                                                            !.result = points]]
         IN  IF ~S.tkvar[c] THEN S
             ELSE IF S.calls[c].op = "remove_background"
             THEN resume(remove_background_end(R, points))
             ELSE resume(calculate_intensities_end(R, points))

\* A call that has returned and whose onclick is disconnected is garbage.
collect(S) ==
    [S EXCEPT !.calls = [i \in 1..Len(S.calls) |->
                           IF S.calls[i].returned /\ ~S.calls[i].connected
                           THEN Dead ELSE S.calls[i]]]

\* A click on the canvas, from the event to the event loop being idle again.
click(S, event) == collect(resume(dispatch(S, event)))

\* The clicks a user can make: outside the axes (xdata and ydata are None),
\* or at a data coordinate.
Points == {<<V(0), V(0)>>, <<V(4), V(0)>>, <<V(1), V(1)>>, <<V(3), V(1)>>}

Click(p) == [inaxes |-> TRUE, xdata |-> p[1], ydata |-> p[2]]

Events == {[inaxes |-> FALSE, xdata |-> V(0), ydata |-> V(0)]} \cup {Click(p) : p \in Points}

\* "Remove Background"
remove_background ==
    /\ data # << >> => Len(calls) < MaxCalls
    /\ Install(remove_background_begin(Session))
    /\ UNCHANGED <<file_paths, selector_values>>

\* "Calculate Intensities"
calculate_intensities ==
    /\ data # << >> => Len(calls) < MaxCalls
    /\ Install(calculate_intensities_begin(Session))
    /\ UNCHANGED <<file_paths, selector_values>>

\* A mouse click on the canvas.
button_press_event ==
    \E event \in Events :
        /\ Install(click(Session, event))
        /\ UNCHANGED <<file_paths, selector_values>>

Next ==
    \/ load_data
    \/ load_selected_file
    \/ plot_data
    \/ remove_background
    \/ calculate_intensities
    \/ save_figure
    \/ button_press_event

Spec == Init /\ [][Next]_vars

-----------------------------------------------------------------------------
(* The session used one selection at a time: the folder has been listed, and *)
(* each "Remove Background" or "Calculate Intensities" gets its two clicks   *)
(* inside the axes before the user does anything else.                       *)

InitOneAtATime ==
    /\ file_paths = ListTxt("spectra")
    /\ selector_values = ListTxt("spectra")
    /\ data = << >>
    /\ binding_energies = << >>
    /\ sum_intensities = << >>
    /\ results_text = << >>
    /\ canvas = FALSE
    /\ points_collected = 0
    /\ tkvar = << >>
    /\ calls = << >>
    /\ stack = << >>
    /\ message = showinfo("Files loaded successfully!")
    /\ returned = [NoCall EXCEPT !.connected = FALSE]

remove_background_with_points ==
    \E p1 \in Points, p2 \in Points :
        /\ data # << >>
        /\ Len(calls) < MaxCalls
        /\ Install(click(click(remove_background_begin(Session), Click(p1)), Click(p2)))
        /\ UNCHANGED <<file_paths, selector_values>>

calculate_intensities_with_points ==
    \E p1 \in Points, p2 \in Points :
        /\ data # << >>
        /\ Len(calls) < MaxCalls
        /\ Install(click(click(calculate_intensities_begin(Session), Click(p1)), Click(p2)))
        /\ UNCHANGED <<file_paths, selector_values>>

NextOneAtATime ==
    \/ load_selected_file
    \/ remove_background_with_points
    \/ calculate_intensities_with_points

SpecOneAtATime == InitOneAtATime /\ [][NextOneAtATime]_vars

-----------------------------------------------------------------------------
(* Properties *)

\* This step is the return of a get_user_points call made by handler `op`,
\* followed by the rest of that handler; returned' is the call.
Returns(op) == returned'.cid # returned.cid /\ returned'.op = op

\* The two points a returned call handed to its handler have the same x.
SameX(c) == c.result[1][1] = c.result[2][1]

Finite(y) == \A i \in 1..Len(y) : IsFinite(y[i])

\* C1: get_user_points(n) returns exactly n points, and they are the first n
\* valid clicks delivered since the call began, in click order; clicks
\* outside the axes are not among them.
C1_ReturnsFirstNClicks ==
    returned.op # "" =>
        /\ Len(returned.result) = returned.num_points
        /\ returned.result = returned.seen

\* C2: at most one get_user_points call is suspended, with at most one
\* click handler registered.
C2_OneCollectionInFlight ==
    /\ Len(stack) <= 1
    /\ Cardinality(Connected(calls)) <= 1

\* C3: a call whose list has reached n points has had its own completion
\* flag set, and a call that has been delivered n valid clicks is no longer
\* suspended (the wait returns in the step of the n-th click).
C3_OwnFlagSignalled ==
    \A c \in 1..Len(calls) :
        /\ (calls[c].op # "" /\ Len(calls[c].points) = calls[c].num_points) => tkvar[c]
        /\ (\E i \in 1..Len(stack) : stack[i] = c) => Len(calls[c].seen) < calls[c].num_points

\* A suspended call whose own flag can no longer be set stays suspended: its
\* list is full, its handler is disconnected, and self.points_collected has
\* moved on to a later BooleanVar.
Stuck(c) ==
    /\ \E i \in 1..Len(stack) : stack[i] = c
    /\ ~calls[c].connected
    /\ ~tkvar[c]
    /\ points_collected # c

StuckForever == [][\A c \in 1..Len(calls) : Stuck(c) => Stuck(c)']_vars

\* C4: remove_background with two points of equal x reports an error and
\* leaves y as it was; y never holds NaN or Inf.
C4_EqualXRejected ==
    [][(Returns("remove_background") /\ Len(returned'.result) = 2 /\ SameX(returned'))
         => /\ message'.kind = "showerror"
            /\ sum_intensities' = sum_intensities
            /\ Finite(sum_intensities')]_vars

\* A file the format does not allow: a token that is no number, a row of
\* fewer than two columns, or a single row.
Malformed(name) ==
    LET rows == Files[name].rows
    IN  /\ Files[name].readable
        /\ \/ \E i \in 1..Len(rows) : \E j \in 1..Len(rows[i]) : ~rows[i][j].num
           \/ \E i \in 1..Len(rows) : Len(rows[i]) < 2
           \/ Len(rows) < 2

\* C5: loading a malformed file is reported as an invalid data format and
\* leaves x, y and data as they were; after every step a loaded dataset has
\* len(x) = len(y) > 0.
C5_MalformedFileReported ==
    [][/\ \A k \in 1..Len(selector_values) :
            (/\ Malformed(selector_values[k])
             /\ \E i \in 1..Len(file_paths) : file_paths[i] = selector_values[k]
             /\ SessionAfter = load_selected_file_of(Session, file_paths, selector_values[k]))
            => /\ message' = showerror("Failed to load: Invalid data format.")
               /\ UNCHANGED <<data, binding_energies, sum_intensities>>
       /\ data' # << >> =>
            /\ Len(binding_energies') = Len(sum_intensities')
            /\ Len(binding_energies') > 0]_vars

\* The reference integrator of C6.  Snapping: the lowest index among the
\* samples nearest to v (0-based).
RefSnap(x, v) ==
    CHOOSE i \in 0..(Len(x) - 1) :
        /\ \A j \in 0..(Len(x) - 1) : ~VLess(VAbs(VSub(x[j + 1], v)), VAbs(VSub(x[i + 1], v)))
        /\ \A j \in 0..(i - 1) : VLess(VAbs(VSub(x[i + 1], v)), VAbs(VSub(x[j + 1], v)))

\* The trapezoids between consecutive samples i, i+1 (0-based) with
\* start <= i and i + 1 < end.
RECURSIVE RefArea(_, _, _, _)
RefArea(x, y, start, end) ==
    IF start + 1 >= end THEN V(0)
    ELSE VAdd(RefArea(x, y, start, end - 1),
              VDiv(VMul(VSub(x[end], x[end - 1]), VAdd(y[end - 1], y[end])), V(2)))

\* The window of the two x-values a and b, in either order: the sorted
\* values and the samples they snap to.
RefWindow(x, a, b) ==
    LET lo == IF VLess(a, b) THEN a ELSE b
        hi == IF VLess(a, b) THEN b ELSE a
    IN  [lo |-> lo, hi |-> hi, start_idx |-> RefSnap(x, lo), end_idx |-> RefSnap(x, hi)]

PeakX == <<V(0), V(1), V(2), V(3), V(4)>>

PeakY == <<V(0), V(1), V(4), V(1), V(0)>>

\* C6: calculate_intensities agrees with the reference integrator on every
\* dataset and pair of points: InvalidRange iff start_idx >= end_idx, else the
\* area over [start_idx, end_idx) is shown and logged; the peak with x-values
\* 1 and 3 gives 5/2, and a constant window y = c gives
\* c * (x[end_idx-1] - x[start_idx]).
C6_AgreesWithReference ==
    [][(Returns("calculate_intensities") /\ Len(returned'.result) = 2)
         => \A w \in {RefWindow(binding_energies,
                                returned'.result[1][1], returned'.result[2][1])} :
            \A area \in {RefArea(binding_energies, sum_intensities,
                                 w.start_idx, w.end_idx)} :
                LET x == binding_energies
                    y == sum_intensities
                    c == y[w.start_idx + 1]
                IN  IF w.start_idx >= w.end_idx
                    THEN /\ message' = showerror("Invalid range selected.")
                         /\ results_text' = results_text
                    ELSE /\ message'.kind = "showinfo"
                         /\ message'.value = area
                         /\ results_text' =
                                Append(results_text,
                                       [x_lower |-> Fmt(w.lo, 100),
                                        x_upper |-> Fmt(w.hi, 100),
                                        area |-> Fmt(area, 10000)])
                         /\ (x = PeakX /\ y = PeakY /\ w.lo = V(1) /\ w.hi = V(3))
                                => message'.value = <<5, 2>>
                         /\ (/\ IsFinite(c)
                             /\ \A i \in w.start_idx..(w.end_idx - 1) : y[i + 1] = c)
                                => message'.value =
                                       VMul(c, VSub(x[w.end_idx], x[w.start_idx + 1]))]_vars

\* C6 happens: the peak has been integrated between x = 1 and x = 3 and
\* 2.5 has been shown and logged.
C6_Witness ==
    /\ binding_energies = PeakX
    /\ sum_intensities = PeakY
    /\ returned.op = "calculate_intensities"
    /\ returned.result = <<<<V(3), V(1)>>, <<V(1), V(1)>>>>
    /\ message.value = <<5, 2>>
    /\ results_text # << >>
    /\ results_text[Len(results_text)] =
           [x_lower |-> <<"f", 100>>, x_upper |-> <<"f", 300>>, area |-> <<"f", 25000>>]

\* The line through the two points, taken from the one of smaller x.
RefLine(points, v) ==
    LET first == IF VLess(points[2][1], points[1][1]) THEN 2 ELSE 1
        p1 == points[first]
        p2 == points[3 - first]
        slope == VDiv(VSub(p2[2], p1[2]), VSub(p2[1], p1[1]))
        intercept == VSub(p1[2], VMul(slope, p1[1]))
    IN  VAdd(VMul(slope, v), intercept)

\* C8: remove_background with x1 # x2 replaces every sample, over the whole
\* x domain, by y[i] - (slope * x[i] + intercept), whichever point was
\* clicked first; a zero line leaves y unchanged; the same non-zero line
\* applied again is subtracted again.
C8_SubtractsLineEverywhere ==
    [][(Returns("remove_background") /\ Len(returned'.result) = 2 /\ ~SameX(returned'))
         => LET x == binding_energies
                y == sum_intensities
                pts == returned'.result
                swapped == <<pts[2], pts[1]>>
            IN  /\ binding_energies' = x
                /\ Len(sum_intensities') = Len(y)
                /\ \A i \in 1..Len(y) :
                       /\ sum_intensities'[i] = VSub(y[i], RefLine(pts, x[i]))
                       /\ sum_intensities'[i] = VSub(y[i], RefLine(swapped, x[i]))
                /\ data' = <<x, sum_intensities'>>
                /\ (pts[1][2] = V(0) /\ pts[2][2] = V(0)) => sum_intensities' = y
                /\ (/\ returned.op = "remove_background"
                    /\ returned.result \in {pts, swapped}
                    /\ Finite(y)
                    /\ \E i \in 1..Len(y) : RefLine(pts, x[i]) # V(0))
                       => sum_intensities' # y]_vars

\* C8 happens: the line y = x through (0,0) and (1,1), clicked in the other
\* order, has been subtracted from the peak twice.
C8_Witness ==
    /\ binding_energies = PeakX
    /\ sum_intensities = <<V(0), V(-1), V(0), V(-5), V(-8)>>
    /\ returned.op = "remove_background"
    /\ returned.result = <<<<V(1), V(1)>>, <<V(0), V(0)>>>>

\* C7: a step that reports an error leaves x, y and the log as they were
\* when the failing operation was triggered, and the registered handlers and
\* suspended collections as they were then: the failed operation leaves none
\* of its own and disturbs no other.
C7_ErrorLeavesSessionAsTriggered ==
    [][(message' # message /\ message'.kind = "showerror")
         => IF returned'.cid # returned.cid
            THEN /\ binding_energies' = returned'.x0
                 /\ sum_intensities' = returned'.y0
                 /\ results_text' = returned'.log0
                 /\ Connected(calls') = returned'.handlers0
            ELSE /\ UNCHANGED <<binding_energies, sum_intensities, results_text, stack>>
                 /\ Connected(calls') = Connected(calls)]_vars

\* C9: whenever the slice [start_idx, end_idx) holds fewer than two samples,
\* calculate_intensities reports the invalid range and logs nothing.
C9_NarrowWindowRejected ==
    [][(Returns("calculate_intensities") /\ Len(returned'.result) = 2)
         => \A w \in {RefWindow(binding_energies,
                                returned'.result[1][1], returned'.result[2][1])} :
                w.end_idx - w.start_idx < 2
                    => /\ message' = showerror("Invalid range selected.")
                       /\ results_text' = results_text]_vars

\* C10: while a call stays suspended, no step changes x or y, and the
\* dataset an operation completes on is the one it was triggered on.
C10_DatasetFixedWhileSuspended ==
    [][/\ (\E i \in 1..Len(stack) : \E j \in 1..Len(stack') : stack[i] = stack'[j])
            => UNCHANGED <<binding_energies, sum_intensities>>
       /\ returned'.cid # returned.cid
            => (binding_energies = returned'.x0 /\ sum_intensities = returned'.y0)]_vars
====
